---- MODULE Spec2Model ----
(***************************************************************************)
(* The ResumeBuilder component of src/components/ui/resume-builder.tsx as  *)
(* a state machine: the React state of the component, one action per       *)
(* event handler, the pending FileReader callbacks and the pending toPdf   *)
(* promise.                                                                *)
(*                                                                         *)
(* JavaScript strings are TLA+ strings.  The two values that can be null   *)
(* at run time (generationError, and reader.result stored in               *)
(* profilePicture) are tagged: JsNull or JsString(s).                      *)
(* Arrays are sequences; a JavaScript index i is position i + 1.           *)
(***************************************************************************)
EXTENDS Integers, Sequences, FiniteSets, TLC

VARIABLES resumeData, template, errors, isGenerating, generationError,
          readers, toPdfCalls

vars == <<resumeData, template, errors, isGenerating, generationError,
          readers, toPdfCalls>>

(***************************************************************************)
(* Bounds of the model.                                                    *)
(***************************************************************************)
MaxEntries == 2      \* longest work-experience / education sequence explored
MaxReaders == 1      \* FileReaders whose loadend has not fired yet
MaxInFlight == 2     \* toPdf promises not yet settled

(***************************************************************************)
(* JavaScript values.                                                      *)
(***************************************************************************)
JsNull == [tag |-> "null"]
JsString(s) == [tag |-> "string", val |-> s]
Truthy(v) == v.tag = "string" /\ v.val # ""

(***************************************************************************)
(* Record<string, string>: a function whose domain is the set of keys.     *)
(***************************************************************************)
EmptyObject == [k \in {} |-> ""]
Put(obj, key, value) ==
  [k \in (DOMAIN obj) \cup {key} |-> IF k = key THEN value ELSE obj[k]]
\* obj[key] used as a condition: undefined and '' are both falsy
TruthyAt(obj, key) == key \in DOMAIN obj /\ obj[key] # ""

(***************************************************************************)
(* The record.                                                             *)
(***************************************************************************)
blankWorkExperience ==
  [company |-> "", position |-> "", duration |-> "", description |-> ""]
blankEducation == [institution |-> "", degree |-> "", year |-> ""]

initialResumeData ==
  [ personalInfo   |-> [name |-> "", email |-> "", phone |-> "", address |-> ""],
    profilePicture |-> JsString(""),
    workExperience |-> <<blankWorkExperience>>,
    education      |-> <<blankEducation>>,
    skills         |-> "" ]

Templates == {"modern", "classic", "minimalist"}

Init ==
  /\ resumeData = initialResumeData
  /\ template = "modern"
  /\ errors = EmptyObject
  /\ isGenerating = FALSE
  /\ generationError = JsNull
  /\ readers = <<>>
  /\ toPdfCalls = <<>>

(***************************************************************************)
(* Record updates made by the handlers: ({ ...resumeData, ... }).          *)
(***************************************************************************)
\* arr.slice(0, index): everything from the index on is dropped
FilterOutFromIndex(arr, index) ==
  LET F[i \in 0..Len(arr)] ==
        IF i = 0 THEN <<>>
        ELSE IF (i - 1) < index THEN Append(F[i - 1], arr[i]) ELSE F[i - 1]
  IN F[Len(arr)]

\* arr.splice(index, 1): a negative index counts from the end
FilterOutIndexSplice(arr, index) ==
  LET at == IF index < 0 THEN Len(arr) + index ELSE index
      F[i \in 0..Len(arr)] ==
        IF i = 0 THEN <<>>
        ELSE IF (i - 1) # at THEN Append(F[i - 1], arr[i]) ELSE F[i - 1]
  IN F[Len(arr)]

\* filter that compares the 1-based position with the index
FilterOutIndexOneBased(arr, index) ==
  LET F[i \in 0..Len(arr)] ==
        IF i = 0 THEN <<>>
        ELSE IF i # index THEN Append(F[i - 1], arr[i]) ELSE F[i - 1]
  IN F[Len(arr)]

\* resumeData.workExperience.filter((_, i) => i !== index)
FilterOutIndex(arr, index) ==
  LET keep(i) == (i - 1) # index
      F[i \in 0..Len(arr)] ==
        IF i = 0 THEN <<>>
        ELSE IF keep(i) THEN Append(F[i - 1], arr[i]) ELSE F[i - 1]
  IN F[Len(arr)]

\* newArr[index] = { [name]: value }: the entry's other fields are not spread
SetEntryFieldOnly(arr, index, name, value) ==
  [arr EXCEPT ![index + 1] = [f \in DOMAIN @ |-> IF f = name THEN value ELSE ""]]

\* newArr[index] = { ...newArr[index], [name]: value } for an index of the list
SetEntryField(arr, index, name, value) ==
  [arr EXCEPT ![index + 1] = [@ EXCEPT ![name] = value]]

WithPersonalInfo(rd, name, value) ==
  [rd EXCEPT !.personalInfo = [@ EXCEPT ![name] = value]]

WithWorkExperience(rd, index, name, value) ==
  [rd EXCEPT !.workExperience = SetEntryField(rd.workExperience, index, name, value)]

WithEducation(rd, index, name, value) ==
  [rd EXCEPT !.education = SetEntryField(rd.education, index, name, value)]

WithAddedWorkExperience(rd) ==
  [rd EXCEPT !.workExperience = Append(rd.workExperience, blankWorkExperience)]

\* a removal that refuses to delete the last remaining entry
WithRemovedWorkExperienceKeepsOne(rd, index) ==
  IF Len(rd.workExperience) <= 1 THEN rd
  ELSE [rd EXCEPT !.workExperience = FilterOutIndex(rd.workExperience, index)]

WithRemovedWorkExperience(rd, index) ==
  [rd EXCEPT !.workExperience = FilterOutIndex(rd.workExperience, index)]

WithAddedEducation(rd) ==
  [rd EXCEPT !.education = Append(rd.education, blankEducation)]

WithRemovedEducation(rd, index) ==
  [rd EXCEPT !.education = FilterOutIndex(rd.education, index)]

WithSkills(rd, value) == [rd EXCEPT !.skills = value]

WithProfilePicture(rd, result) == [rd EXCEPT !.profilePicture = result]

(***************************************************************************)
(* Field handlers.  Each runs against the state of the latest render.      *)
(***************************************************************************)
\* the handler dropping the whole errors map instead of one entry
handlePersonalInfoChangeClearsAll(name, value) ==
  /\ resumeData' = WithPersonalInfo(resumeData, name, value)
  /\ errors' = IF TruthyAt(errors, name) THEN EmptyObject ELSE errors
  /\ UNCHANGED <<template, isGenerating, generationError, readers, toPdfCalls>>

handlePersonalInfoChange(name, value) ==
  /\ resumeData' = WithPersonalInfo(resumeData, name, value)
  /\ errors' = IF TruthyAt(errors, name) THEN Put(errors, name, "") ELSE errors
  /\ UNCHANGED <<template, isGenerating, generationError, readers, toPdfCalls>>

handleWorkExperienceChange(index, name, value) ==
  /\ index \in 0..(Len(resumeData.workExperience) - 1)
  /\ resumeData' = WithWorkExperience(resumeData, index, name, value)
  /\ UNCHANGED <<template, errors, isGenerating, generationError, readers, toPdfCalls>>

handleEducationChange(index, name, value) ==
  /\ index \in 0..(Len(resumeData.education) - 1)
  /\ resumeData' = WithEducation(resumeData, index, name, value)
  /\ UNCHANGED <<template, errors, isGenerating, generationError, readers, toPdfCalls>>

addWorkExperience ==
  /\ Len(resumeData.workExperience) < MaxEntries
  /\ resumeData' = WithAddedWorkExperience(resumeData)
  /\ UNCHANGED <<template, errors, isGenerating, generationError, readers, toPdfCalls>>

removeWorkExperience(index) ==
  /\ resumeData' = WithRemovedWorkExperience(resumeData, index)
  /\ UNCHANGED <<template, errors, isGenerating, generationError, readers, toPdfCalls>>

addEducation ==
  /\ Len(resumeData.education) < MaxEntries
  /\ resumeData' = WithAddedEducation(resumeData)
  /\ UNCHANGED <<template, errors, isGenerating, generationError, readers, toPdfCalls>>

removeEducation(index) ==
  /\ resumeData' = WithRemovedEducation(resumeData, index)
  /\ UNCHANGED <<template, errors, isGenerating, generationError, readers, toPdfCalls>>

handleSkillsChange(value) ==
  /\ resumeData' = WithSkills(resumeData, value)
  /\ UNCHANGED <<template, errors, isGenerating, generationError, readers, toPdfCalls>>

\* a template switch that also resets the form
setTemplateResetsForm(value) ==
  /\ template' = value
  /\ resumeData' = initialResumeData
  /\ UNCHANGED <<errors, isGenerating, generationError, readers, toPdfCalls>>

setTemplate(value) ==
  /\ template' = value
  /\ UNCHANGED <<resumeData, errors, isGenerating, generationError, readers, toPdfCalls>>

(***************************************************************************)
(* Profile picture upload.  A file of the picker is                        *)
(* [readable, type, base64]: whether the read succeeds, the MIME type and  *)
(* the base64 text of its bytes.  The picker hands over a list of zero or  *)
(* one file.                                                               *)
(***************************************************************************)
DataUriPrefix == "data:"

\* reader.result when loadend fires: the data URL, or null after a failed read
readAsDataURL(file) ==
  IF file.readable
  THEN JsString(DataUriPrefix \o file.type \o ";base64," \o file.base64)
  ELSE JsNull

\* The onloadend closure keeps the resumeData of the render in which the file
\* was chosen.
handleProfilePictureUpload(files) ==
  /\ IF Len(files) > 0
     THEN /\ Len(readers) < MaxReaders
          /\ readers' = Append(readers, [resumeData |-> resumeData, file |-> files[1]])
     ELSE UNCHANGED readers
  /\ UNCHANGED <<resumeData, template, errors, isGenerating, generationError, toPdfCalls>>

RemoveAt(seq, i) == SubSeq(seq, 1, i - 1) \o SubSeq(seq, i + 1, Len(seq))

onloadend(r) ==
  /\ r \in 1..Len(readers)
  /\ resumeData' = WithProfilePicture(readers[r].resumeData, readAsDataURL(readers[r].file))
  /\ readers' = RemoveAt(readers, r)
  /\ UNCHANGED <<template, errors, isGenerating, generationError, toPdfCalls>>

(***************************************************************************)
(* Validation and submission.                                              *)
(***************************************************************************)
RequiredFields == {"name", "email", "phone"}

\* the phone message stored under the email key
newErrorsWrongKey(rd) ==
  LET e0 == EmptyObject
      e1 == IF rd.personalInfo.name = "" THEN Put(e0, "name", "Name is required") ELSE e0
      e2 == IF rd.personalInfo.email = "" THEN Put(e1, "email", "Email is required") ELSE e1
      e3 == IF rd.personalInfo.phone = "" THEN Put(e2, "email", "Phone is required") ELSE e2
  IN e3

newErrors(rd) ==
  LET e0 == EmptyObject
      e1 == IF rd.personalInfo.name = "" THEN Put(e0, "name", "Name is required") ELSE e0
      e2 == IF rd.personalInfo.email = "" THEN Put(e1, "email", "Email is required") ELSE e1
      e3 == IF rd.personalInfo.phone = "" THEN Put(e2, "phone", "Phone is required") ELSE e2
  IN e3

\* the result computed from the errors of the previous render
validateFormStaleErrors(rd) == DOMAIN errors = {}

\* the value validateForm returns
validateForm(rd) == DOMAIN newErrors(rd) = {}

IsWhitespace(c) == c \in {" ", "\t", "\n"}

\* str.replace(/\s/g, replacement): every whitespace character on its own
RECURSIVE ReplaceEachWhitespaceFrom(_, _, _, _)
ReplaceEachWhitespaceFrom(str, i, inRun, replacement) ==
  IF i > Len(str) THEN ""
  ELSE LET c == SubSeq(str, i, i) IN
       (IF IsWhitespace(c) THEN replacement ELSE c)
         \o ReplaceEachWhitespaceFrom(str, i + 1, FALSE, replacement)

\* str.replace(/\s+/g, replacement)
RECURSIVE ReplaceWhitespaceFrom(_, _, _, _)
ReplaceWhitespaceFrom(str, i, inRun, replacement) ==
  IF i > Len(str) THEN ""
  ELSE LET c == SubSeq(str, i, i) IN
       IF IsWhitespace(c)
       THEN (IF inRun THEN "" ELSE replacement)
              \o ReplaceWhitespaceFrom(str, i + 1, TRUE, replacement)
       ELSE c \o ReplaceWhitespaceFrom(str, i + 1, FALSE, replacement)

pdfFilename(rd) ==
  ReplaceWhitespaceFrom(rd.personalInfo.name, 1, FALSE, "_") \o "_resume.pdf"

\* a submit button without the disabled attribute
submitNeverDisabled == FALSE

\* <Button type="submit" disabled={isGenerating}>
submitDisabled == isGenerating

\* a submission that leaves the error flag of the previous export in place
handleSubmitKeepsError ==
  /\ ~submitDisabled
  /\ errors' = newErrors(resumeData)
  /\ IF validateForm(resumeData)
     THEN /\ Len(toPdfCalls) < MaxInFlight
          /\ isGenerating' = TRUE
          /\ toPdfCalls' = Append(toPdfCalls, [filename |-> pdfFilename(resumeData)])
     ELSE UNCHANGED <<isGenerating, toPdfCalls>>
  /\ UNCHANGED <<resumeData, template, generationError, readers>>

handleSubmit ==
  /\ ~submitDisabled
  /\ errors' = newErrors(resumeData)
  /\ IF validateForm(resumeData)
     THEN /\ Len(toPdfCalls) < MaxInFlight
          /\ isGenerating' = TRUE
          /\ generationError' = JsNull
          /\ toPdfCalls' = Append(toPdfCalls, [filename |-> pdfFilename(resumeData)])
     ELSE UNCHANGED <<isGenerating, generationError, toPdfCalls>>
  /\ UNCHANGED <<resumeData, template, readers>>

\* a handler without the finally block
toPdfResolvesNoFinally(p) ==
  /\ p \in 1..Len(toPdfCalls)
  /\ toPdfCalls' = RemoveAt(toPdfCalls, p)
  /\ UNCHANGED <<resumeData, template, errors, isGenerating, generationError, readers>>

\* await toPdf(...) resolves: finally
toPdfResolves(p) ==
  /\ p \in 1..Len(toPdfCalls)
  /\ toPdfCalls' = RemoveAt(toPdfCalls, p)
  /\ isGenerating' = FALSE
  /\ UNCHANGED <<resumeData, template, errors, generationError, readers>>

\* a catch block that also resets the form
toPdfRejectsResetsForm(p) ==
  /\ p \in 1..Len(toPdfCalls)
  /\ toPdfCalls' = RemoveAt(toPdfCalls, p)
  /\ generationError' =
       JsString("An error occurred while generating the PDF. Please try again.")
  /\ isGenerating' = FALSE
  /\ resumeData' = initialResumeData
  /\ UNCHANGED <<template, errors, readers>>

\* await toPdf(...) rejects: catch, then finally
toPdfRejects(p) ==
  /\ p \in 1..Len(toPdfCalls)
  /\ toPdfCalls' = RemoveAt(toPdfCalls, p)
  /\ generationError' =
       JsString("An error occurred while generating the PDF. Please try again.")
  /\ isGenerating' = FALSE
  /\ UNCHANGED <<resumeData, template, errors, readers>>

(***************************************************************************)
(* Inputs of the events.  A change event of an input carries a value other  *)
(* than the one the input shows; the entry inputs and Remove buttons exist *)
(* for the indices of the rendered list.                                   *)
(***************************************************************************)
PersonalInfoFields == {"name", "email", "phone", "address"}
PersonalInfoValues(name) ==
  CASE name = "name"    -> {"", "Jane Doe"}
    [] name = "email"   -> {"", "jane@x.com"}
    [] name = "phone"   -> {"", "555-1234"}
    [] name = "address" -> {"", "1 Elm St"}
WorkExperienceFields == {"company"}
EducationFields == {"degree"}
EntryValues == {"", "x"}
\* the entries whose inputs are typed into: the first two of the rendered list
EditedIndices(arr) == {0, 1} \cap (0..(Len(arr) - 1))
SkillsValues == {"", "TLA+, TypeScript"}
NoFilePicked == { <<>> }
PickedFiles ==
  { <<>>,
    <<[readable |-> TRUE, type |-> "image/png", base64 |-> "iVBORw0KGgo="]>>,
    <<[readable |-> FALSE, type |-> "image/png", base64 |-> "iVBORw0KGgo="]>> }

(***************************************************************************)
(* Spec: the form, the template selector and the export.  Every file       *)
(* dialog is cancelled, so no image read is ever pending.                  *)
(***************************************************************************)
Next ==
  \/ \E name \in PersonalInfoFields :
       \E value \in PersonalInfoValues(name) \ {resumeData.personalInfo[name]} :
         handlePersonalInfoChange(name, value)
  \/ \E index \in EditedIndices(resumeData.workExperience), name \in WorkExperienceFields :
       \E value \in EntryValues \ {resumeData.workExperience[index + 1][name]} :
         handleWorkExperienceChange(index, name, value)
  \/ \E index \in EditedIndices(resumeData.education), name \in EducationFields :
       \E value \in EntryValues \ {resumeData.education[index + 1][name]} :
         handleEducationChange(index, name, value)
  \/ addWorkExperience
  \/ \E index \in 0..(Len(resumeData.workExperience) - 1) : removeWorkExperience(index)
  \/ addEducation
  \/ \E index \in 0..(Len(resumeData.education) - 1) : removeEducation(index)
  \/ \E value \in SkillsValues \ {resumeData.skills} : handleSkillsChange(value)
  \/ \E value \in Templates : setTemplate(value)
  \/ \E files \in NoFilePicked : handleProfilePictureUpload(files)
  \/ handleSubmit
  \/ \E p \in 1..MaxInFlight : toPdfResolves(p)
  \/ \E p \in 1..MaxInFlight : toPdfRejects(p)

Spec == Init /\ [][Next]_vars

(***************************************************************************)
(* SpecUpload: image reads interleaved with edits, template switches,      *)
(* submissions and export outcomes.                                        *)
(***************************************************************************)
UploadPersonalInfoValues(name) ==
  CASE name = "name"    -> {"", "Jane Doe"}
    [] name = "email"   -> {"jane@x.com"}
    [] name = "phone"   -> {"555-1234"}

NextUpload ==
  \/ \E name \in RequiredFields :
       \E value \in UploadPersonalInfoValues(name) \ {resumeData.personalInfo[name]} :
         handlePersonalInfoChange(name, value)
  \/ \E value \in Templates : setTemplate(value)
  \/ \E files \in PickedFiles : handleProfilePictureUpload(files)
  \/ \E r \in 1..MaxReaders : onloadend(r)
  \/ handleSubmit
  \/ \E p \in 1..MaxInFlight : toPdfResolves(p)
  \/ \E p \in 1..MaxInFlight : toPdfRejects(p)

SpecUpload == Init /\ [][NextUpload]_vars

(***************************************************************************)
(* SpecFilename: submissions of records whose name is any string over a    *)
(* small alphabet with blanks and tabs, and their export outcomes.         *)
(***************************************************************************)
MaxNameLen == 4      \* longest name typed, in characters

NameAlphabet == {"a", "b", " ", "\t"}

RECURSIVE StringsUpTo(_)
StringsUpTo(n) ==
  IF n = 0 THEN {""}
  ELSE LET shorter == StringsUpTo(n - 1)
       IN shorter \cup {s \o c : s \in shorter, c \in NameAlphabet}

NameInputs == StringsUpTo(MaxNameLen) \cup {"Jane Doe"}

InitFilename ==
  /\ resumeData \in
       { [initialResumeData EXCEPT
            !.personalInfo = [name |-> n, email |-> "jane@x.com",
                              phone |-> "555-1234", address |-> ""]]
         : n \in NameInputs }
  /\ template = "modern"
  /\ errors = EmptyObject
  /\ isGenerating = FALSE
  /\ generationError = JsNull
  /\ readers = <<>>
  /\ toPdfCalls = <<>>

\* the name is retyped while the export runs
RetypedNames == {"", "b b"}

NextFilename ==
  \/ handleSubmit
  \/ /\ isGenerating
     /\ \E value \in RetypedNames \ {resumeData.personalInfo.name} :
          handlePersonalInfoChange("name", value)
  \/ \E p \in 1..MaxInFlight : toPdfResolves(p)
  \/ \E p \in 1..MaxInFlight : toPdfRejects(p)

SpecFilename == InitFilename /\ [][NextFilename]_vars

(***************************************************************************)
(* The preview.  renderPreview gives the elements of the rendered document *)
(* in document order.  An element is an image [tag, src] or a text element *)
(* [tag, children]; a child is a literal of the JSX, Lit(s), or the value  *)
(* of an expression {resumeData...}, Expr(section, index, field, text),    *)
(* index being the position in the mapped list (0 outside a list).         *)
(***************************************************************************)
Lit(s) == [kind |-> "literal", section |-> "", index |-> 0, field |-> "", text |-> s]
Expr(section, index, field, text) ==
  [kind |-> "expression", section |-> section, index |-> index, field |-> field,
   text |-> text]
Text(tag, children) == [tag |-> tag, children |-> children]
Img(src) == [tag |-> "img", src |-> src]

\* arr.map((item, index) => ...) with every item giving a run of elements
MapFlat(arr, render(_, _)) ==
  LET F[i \in 0..Len(arr)] ==
        IF i = 0 THEN <<>> ELSE F[i - 1] \o render(arr[i], i - 1)
  IN F[Len(arr)]

\* {resumeData.profilePicture && <img src={resumeData.profilePicture} />}
PreviewImage(rd) ==
  IF Truthy(rd.profilePicture) THEN <<Img(rd.profilePicture)>> ELSE <<>>

PName(rd) == Expr("personalInfo", 0, "name", rd.personalInfo.name)
PEmail(rd) == Expr("personalInfo", 0, "email", rd.personalInfo.email)
PPhone(rd) == Expr("personalInfo", 0, "phone", rd.personalInfo.phone)
PAddress(rd) == Expr("personalInfo", 0, "address", rd.personalInfo.address)
PSkills(rd) == Expr("skills", 0, "skills", rd.skills)
WField(exp, index, field) == Expr("workExperience", index, field, exp[field])
EField(edu, index, field) == Expr("education", index, field, edu[field])

ModernWork(exp, index) ==
  << Text("p", <<WField(exp, index, "company"), Lit(" - "), WField(exp, index, "position")>>),
     Text("p", <<WField(exp, index, "duration")>>),
     Text("p", <<WField(exp, index, "description")>>) >>
ModernEducation(edu, index) ==
  << Text("p", <<EField(edu, index, "institution")>>),
     Text("p", <<EField(edu, index, "degree"), Lit(" - "), EField(edu, index, "year")>>) >>
renderModern(rd) ==
  PreviewImage(rd)
  \o << Text("h2", <<PName(rd)>>),
        Text("p", <<PEmail(rd), Lit(" | "), PPhone(rd)>>),
        Text("p", <<PAddress(rd)>>),
        Text("h3", <<Lit("Work Experience")>>) >>
  \o MapFlat(rd.workExperience, ModernWork)
  \o << Text("h3", <<Lit("Education")>>) >>
  \o MapFlat(rd.education, ModernEducation)
  \o << Text("h3", <<Lit("Skills")>>), Text("p", <<PSkills(rd)>>) >>

ClassicWork(exp, index) ==
  << Text("p", <<WField(exp, index, "company")>>),
     Text("p", <<WField(exp, index, "position"), Lit(" - "), WField(exp, index, "duration")>>),
     Text("p", <<WField(exp, index, "description")>>) >>
ClassicEducation(edu, index) ==
  << Text("p", <<EField(edu, index, "institution")>>),
     Text("p", <<EField(edu, index, "degree"), Lit(" - "), EField(edu, index, "year")>>) >>
renderClassic(rd) ==
  PreviewImage(rd)
  \o << Text("h2", <<PName(rd)>>),
        Text("p", <<PEmail(rd), Lit(" | "), PPhone(rd)>>),
        Text("p", <<PAddress(rd)>>),
        Text("h3", <<Lit("Work Experience")>>) >>
  \o MapFlat(rd.workExperience, ClassicWork)
  \o << Text("h3", <<Lit("Education")>>) >>
  \o MapFlat(rd.education, ClassicEducation)
  \o << Text("h3", <<Lit("Skills")>>), Text("p", <<PSkills(rd)>>) >>

MinimalistWork(exp, index) ==
  << Text("p", <<WField(exp, index, "company"), Lit(" | "), WField(exp, index, "position")>>),
     Text("p", <<WField(exp, index, "duration")>>),
     Text("p", <<WField(exp, index, "description")>>) >>
MinimalistEducation(edu, index) ==
  << Text("p", <<EField(edu, index, "institution"), Lit(" | "), EField(edu, index, "degree")>>),
     Text("p", <<EField(edu, index, "year")>>) >>
\* the minimalist header without the address line
renderMinimalistNoAddress(rd) ==
  << Text("h2", <<PName(rd)>>) >>
  \o PreviewImage(rd)
  \o << Text("p", <<PEmail(rd)>>),
        Text("p", <<PPhone(rd)>>),
        Text("h3", <<Lit("Experience")>>) >>
  \o MapFlat(rd.workExperience, MinimalistWork)
  \o << Text("h3", <<Lit("Education")>>) >>
  \o MapFlat(rd.education, MinimalistEducation)
  \o << Text("h3", <<Lit("Skills")>>), Text("p", <<PSkills(rd)>>) >>

renderMinimalist(rd) ==
  << Text("h2", <<PName(rd)>>) >>
  \o PreviewImage(rd)
  \o << Text("p", <<PEmail(rd)>>),
        Text("p", <<PPhone(rd)>>),
        Text("p", <<PAddress(rd)>>),
        Text("h3", <<Lit("Experience")>>) >>
  \o MapFlat(rd.workExperience, MinimalistWork)
  \o << Text("h3", <<Lit("Education")>>) >>
  \o MapFlat(rd.education, MinimalistEducation)
  \o << Text("h3", <<Lit("Skills")>>), Text("p", <<PSkills(rd)>>) >>

\* switch (template)
renderPreview(rd, t) ==
  CASE t = "modern" -> renderModern(rd)
    [] t = "classic" -> renderClassic(rd)
    [] t = "minimalist" -> renderMinimalist(rd)

(***************************************************************************)
(* SpecPreview: the preview of any record of a bounded set, under every    *)
(* template.                                                               *)
(***************************************************************************)
SeqsUpTo(S, n) == UNION {[1..k -> S] : k \in 0..n}

PreviewPersonalInfo ==
  { [name |-> "", email |-> "", phone |-> "", address |-> ""],
    [name |-> "Jane Doe", email |-> "jane@x.com", phone |-> "555-1234",
     address |-> "1 Elm St"] }
PreviewPictures ==
  { JsString(""), JsNull, JsString("data:image/png;base64,iVBORw0KGgo=") }
PreviewWorkEntries ==
  { blankWorkExperience,
    [company |-> "Acme", position |-> "Engineer", duration |-> "2019-2021",
     description |-> "Built things"],
    [company |-> "Initech", position |-> "Lead", duration |-> "2021-2024",
     description |-> ""] }
PreviewEducationEntries ==
  { blankEducation,
    [institution |-> "MIT", degree |-> "BSc", year |-> "2018"],
    [institution |-> "ETH", degree |-> "MSc", year |-> "2020"] }

PreviewRecords ==
  { [ personalInfo   |-> pi,
      profilePicture |-> pic,
      workExperience |-> work,
      education      |-> edu,
      skills         |-> sk ]
    : pi \in PreviewPersonalInfo, pic \in PreviewPictures,
      work \in SeqsUpTo(PreviewWorkEntries, MaxEntries),
      edu \in SeqsUpTo(PreviewEducationEntries, MaxEntries),
      sk \in SkillsValues }

InitPreview ==
  /\ resumeData \in PreviewRecords
  /\ template = "modern"
  /\ errors = EmptyObject
  /\ isGenerating = FALSE
  /\ generationError = JsNull
  /\ readers = <<>>
  /\ toPdfCalls = <<>>

NextPreview == \E value \in Templates \ {template} : setTemplate(value)

SpecPreview == InitPreview /\ [][NextPreview]_vars

(***************************************************************************)
(* SpecEdit: the editing handlers alone, with two fields of every entry    *)
(* typed into at every rendered index, and one required and one optional   *)
(* personal-info input.  The removal handlers are also applied to indices  *)
(* that are not in the list.                                               *)
(***************************************************************************)
EditWorkExperienceFields == {"company", "position"}
EditEducationFields == {"institution", "degree"}
EditPersonalInfoFields == {"name", "address"}
RenderedIndices(arr) == 0..(Len(arr) - 1)
AbsentIndices(arr) == ((0 - 1)..(MaxEntries + 1)) \ RenderedIndices(arr)

NextEdit ==
  \/ \E name \in EditPersonalInfoFields :
       \E value \in PersonalInfoValues(name) \ {resumeData.personalInfo[name]} :
         handlePersonalInfoChange(name, value)
  \/ \E index \in RenderedIndices(resumeData.workExperience),
        name \in EditWorkExperienceFields :
       \E value \in EntryValues \ {resumeData.workExperience[index + 1][name]} :
         handleWorkExperienceChange(index, name, value)
  \/ \E index \in RenderedIndices(resumeData.education), name \in EditEducationFields :
       \E value \in EntryValues \ {resumeData.education[index + 1][name]} :
         handleEducationChange(index, name, value)
  \/ addWorkExperience
  \/ \E index \in RenderedIndices(resumeData.workExperience) : removeWorkExperience(index)
  \/ \E index \in AbsentIndices(resumeData.workExperience) : removeWorkExperience(index)
  \/ addEducation
  \/ \E index \in RenderedIndices(resumeData.education) : removeEducation(index)
  \/ \E index \in AbsentIndices(resumeData.education) : removeEducation(index)
  \/ \E value \in SkillsValues \ {resumeData.skills} : handleSkillsChange(value)

SpecEdit == Init /\ [][NextEdit]_vars

(***************************************************************************)
(* SpecExport: submissions and their outcomes between edits of the scalar  *)
(* inputs and of the template.  SpecExportFair adds that a pending toPdf   *)
(* promise settles: it resolves or it rejects.                             *)
(***************************************************************************)
toPdfSettles == \E p \in 1..MaxInFlight : toPdfResolves(p) \/ toPdfRejects(p)

NextExport ==
  \/ \E name \in PersonalInfoFields :
       \E value \in PersonalInfoValues(name) \ {resumeData.personalInfo[name]} :
         handlePersonalInfoChange(name, value)
  \/ \E value \in SkillsValues \ {resumeData.skills} : handleSkillsChange(value)
  \/ \E value \in Templates : setTemplate(value)
  \/ handleSubmit
  \/ \E p \in 1..MaxInFlight : toPdfResolves(p)
  \/ \E p \in 1..MaxInFlight : toPdfRejects(p)

SpecExport == Init /\ [][NextExport]_vars
SpecExportFair == SpecExport /\ WF_vars(toPdfSettles)

(***************************************************************************)
(* Properties.                                                             *)
(***************************************************************************)
AllRequiredPresent(rd) == \A f \in RequiredFields : rd.personalInfo[f] # ""
EmptyRequired(rd) == {f \in RequiredFields : rd.personalInfo[f] = ""}
IsDataUri(v) ==
  /\ v.tag = "string"
  /\ v.val # ""
  /\ Len(v.val) >= Len(DataUriPrefix)
  /\ SubSeq(v.val, 1, Len(DataUriPrefix)) = DataUriPrefix
SomeLoadEnd == \E r \in 1..MaxReaders : onloadend(r)
SomeRejection == \E p \in 1..MaxInFlight : toPdfRejects(p)

\* C1: a submission of a record whose name, email and phone are all non-empty,
\* made while no export is in progress, sets the in-progress flag and invokes
\* the export routine exactly once, whatever the errors map held before.
C1_ValidSubmissionStartsExport ==
  [][ (handleSubmit /\ AllRequiredPresent(resumeData))
        => /\ isGenerating'
           /\ toPdfCalls' = Append(toPdfCalls, [filename |-> pdfFilename(resumeData)])
           /\ Len(toPdfCalls') = Len(toPdfCalls) + 1 ]_vars

\* a valid record has been submitted and its export is running
C1_Witness ==
  /\ AllRequiredPresent(resumeData)
  /\ isGenerating
  /\ Len(toPdfCalls) = 1
  /\ errors = EmptyObject

\* C2: a submission of a record with an empty name, email or phone is blocked
\* (no export call, in-progress flag not set) and afterwards the errors map
\* holds a message for exactly the empty required fields and no other entry.
C2_InvalidSubmissionBlocked ==
  [][ (handleSubmit /\ ~AllRequiredPresent(resumeData))
        => /\ toPdfCalls' = toPdfCalls
           /\ ~isGenerating'
           /\ DOMAIN errors' = EmptyRequired(resumeData)
           /\ \A f \in DOMAIN errors' : errors'[f] # "" ]_vars

\* a blocked submission left messages on name and phone only
C2_Witness ==
  /\ EmptyRequired(resumeData) = {"name", "phone"}
  /\ DOMAIN errors = {"name", "phone"}
  /\ errors["name"] = "Name is required"
  /\ errors["phone"] = "Phone is required"
  /\ ~isGenerating
  /\ toPdfCalls = <<>>

\* C3: while an export call has not settled the submit control is disabled,
\* and at most one export call is in flight.
C3_AtMostOneExportInFlight ==
  /\ Len(toPdfCalls) <= 1
  /\ toPdfCalls # <<>> => submitDisabled
  /\ toPdfCalls # <<>> => ~ENABLED handleSubmit

\* an export is in flight
C3_Witness == Len(toPdfCalls) = 1 /\ isGenerating /\ submitDisabled

\* C4: when the export fails the export error flag becomes a non-null message
\* and the record is the one held just before the export settled.
C4_FailureKeepsRecord ==
  [][ SomeRejection
        => /\ resumeData' = resumeData
           /\ generationError' # JsNull
           /\ Truthy(generationError') ]_vars

\* a failure has been handled on a record edited after its submission
C4_Witness ==
  /\ Truthy(generationError)
  /\ ~isGenerating
  /\ toPdfCalls = <<>>
  /\ resumeData.personalInfo.name = ""
  /\ resumeData.personalInfo.email # ""

\* C5: when an image read completes, the record differs from the record just
\* before the completion in the profile-picture field only.
C5_LoadEndChangesOnlyPicture ==
  [][ SomeLoadEnd
        => resumeData' = WithProfilePicture(resumeData, resumeData'.profilePicture) ]_vars

\* C6: every firing of the load-end callback leaves the profile-picture field
\* holding a non-empty string that begins with the data-URI prefix.
C6_LoadEndLeavesDataUri ==
  [][ SomeLoadEnd => IsDataUri(resumeData'.profilePicture) ]_vars

\* C7: once the profile-picture field is non-empty it stays non-empty.
C7_PictureNeverCleared ==
  [][ Truthy(resumeData.profilePicture) => Truthy(resumeData'.profilePicture) ]_vars

\* C8: appending a blank entry and then removing the entry at the old length
\* gives back the record as it was, for work experience and for education.
C8_AddThenRemoveRestores ==
  [][ /\ addWorkExperience
        => WithRemovedWorkExperience(resumeData', Len(resumeData.workExperience))
             = resumeData
      /\ addEducation
        => WithRemovedEducation(resumeData', Len(resumeData.education))
             = resumeData ]_vars

\* a blank entry has been appended after an entry with content, in both lists
C8_Witness ==
  /\ Len(resumeData.workExperience) = 2
  /\ resumeData.workExperience[1].company = "x"
  /\ resumeData.workExperience[2] = blankWorkExperience
  /\ Len(resumeData.education) = 2
  /\ resumeData.education[1].degree = "x"
  /\ resumeData.education[2] = blankEducation

\* C9: a template switch leaves the record, the errors map, the in-progress
\* flag and the export error flag unchanged.
C9_TemplateSwitchKeepsRecord ==
  [][ ((\E value \in Templates : setTemplate(value)) \/ template' # template)
        => UNCHANGED <<resumeData, errors, isGenerating, generationError>> ]_vars

\* the template was switched while an export and an image read are pending
C9_Witness ==
  /\ template = "minimalist"
  /\ isGenerating
  /\ Len(toPdfCalls) = 1
  /\ Len(readers) = 1

\* C10: the edit that makes a required field non-empty clears the error a
\* blocked submission put on it and leaves the other error entries unchanged.
C10_EditClearsOwnError ==
  [][ \A f \in RequiredFields :
        ( /\ TruthyAt(errors, f)
          /\ resumeData.personalInfo[f] = ""
          /\ resumeData'.personalInfo[f] # "" )
          => /\ ~TruthyAt(errors', f)
             /\ DOMAIN errors' = DOMAIN errors
             /\ \A g \in DOMAIN errors \ {f} : errors'[g] = errors[g] ]_vars

\* the name was filled in after a blocked submission; email is still flagged
C10_Witness ==
  /\ DOMAIN errors = RequiredFields
  /\ errors["name"] = ""
  /\ resumeData.personalInfo.name # ""
  /\ errors["email"] = "Email is required"
  /\ errors["phone"] = "Phone is required"

\* C11: the filename handed to the export routine is the name at the moment of
\* submission with every maximal run of whitespace replaced by one underscore
\* and every other character kept, followed by "_resume.pdf".
Underscored(name) ==
  LET piece(i) ==
        IF ~IsWhitespace(SubSeq(name, i, i)) THEN SubSeq(name, i, i)
        ELSE IF i > 1 /\ IsWhitespace(SubSeq(name, i - 1, i - 1)) THEN ""
        ELSE "_"
      Out[i \in 0..Len(name)] == IF i = 0 THEN "" ELSE Out[i - 1] \o piece(i)
  IN Out[Len(name)]

C11_FilenameFromName ==
  [][ (handleSubmit /\ AllRequiredPresent(resumeData))
        => /\ Len(toPdfCalls') = Len(toPdfCalls) + 1
           /\ toPdfCalls'[Len(toPdfCalls')].filename
                = Underscored(resumeData.personalInfo.name) \o "_resume.pdf"
           /\ resumeData.personalInfo.name = "Jane Doe"
                => toPdfCalls'[Len(toPdfCalls')].filename = "Jane_Doe_resume.pdf"
           /\ \A p \in 1..Len(toPdfCalls) : toPdfCalls'[p] = toPdfCalls[p] ]_vars

\* an export is running for a name that holds a blank followed by a tab
C11_Witness ==
  /\ Len(toPdfCalls) = 1
  /\ resumeData.personalInfo.name = "a \tb"
  /\ toPdfCalls[1].filename = "a_b_resume.pdf"

\* C12: under each of the three templates the preview shows name, email,
\* phone, address, the skills string as one value of its own, every field of
\* every work-experience and education entry in stored order, each exactly
\* once, and the profile picture if and only if the field is non-empty.
WorkFieldNames == {"company", "position", "duration", "description"}
EducationFieldNames == {"institution", "degree", "year"}
ExpectedContent(rd) ==
  { Expr("personalInfo", 0, f, rd.personalInfo[f]) : f \in PersonalInfoFields }
  \cup { Expr("skills", 0, "skills", rd.skills) }
  \cup { Expr("workExperience", i - 1, f, rd.workExperience[i][f])
         : i \in 1..Len(rd.workExperience), f \in WorkFieldNames }
  \cup { Expr("education", i - 1, f, rd.education[i][f])
         : i \in 1..Len(rd.education), f \in EducationFieldNames }
IsImg(el) == el.tag = "img"
IsText(el) == el.tag # "img"
IsExpression(child) == child.kind = "expression"
ChildrenOf(doc) ==
  LET texts == SelectSeq(doc, IsText)
      F[i \in 0..Len(texts)] == IF i = 0 THEN <<>> ELSE F[i - 1] \o texts[i].children
  IN F[Len(texts)]
ExpressionsOf(doc) == SelectSeq(ChildrenOf(doc), IsExpression)
SameContent(doc, rd) ==
  LET shown == ExpressionsOf(doc) IN
  /\ {shown[k] : k \in 1..Len(shown)} = ExpectedContent(rd)
  /\ Len(shown) = Cardinality(ExpectedContent(rd))
  /\ \A k, l \in 1..Len(shown) :
       (k < l /\ shown[k].section = shown[l].section) => shown[k].index <= shown[l].index
  /\ \E k \in 1..Len(doc) :
       IsText(doc[k]) /\ doc[k].children = <<Expr("skills", 0, "skills", rd.skills)>>
  /\ SelectSeq(doc, IsImg)
       = IF rd.profilePicture.tag = "string" /\ rd.profilePicture.val # ""
         THEN <<[tag |-> "img", src |-> rd.profilePicture]>>
         ELSE <<>>

C12_PreviewShowsRecord == SameContent(renderPreview(resumeData, template), resumeData)

\* the minimalist preview of a record with a picture and two different entries
\* in each list
C12_Witness ==
  /\ template = "minimalist"
  /\ Truthy(resumeData.profilePicture)
  /\ resumeData.personalInfo.address = "1 Elm St"
  /\ Len(resumeData.workExperience) = 2
  /\ resumeData.workExperience[1].company = "Initech"
  /\ resumeData.workExperience[2].company = "Acme"
  /\ Len(resumeData.education) = 2
  /\ resumeData.education[1] # resumeData.education[2]

\* C13: at creation each list holds exactly one entry with all fields empty
\* and personal info, picture and skills are empty; afterwards every
\* non-empty list can lose an entry, down to length zero, and an empty list
\* can be appended to.
CreatedBlank ==
  /\ resumeData.personalInfo = [name |-> "", email |-> "", phone |-> "", address |-> ""]
  /\ resumeData.profilePicture = JsString("")
  /\ resumeData.skills = ""
  /\ resumeData.workExperience =
       <<[company |-> "", position |-> "", duration |-> "", description |-> ""]>>
  /\ resumeData.education = <<[institution |-> "", degree |-> "", year |-> ""]>>
NoMinimumLength ==
  /\ Len(resumeData.workExperience) > 0
       => ENABLED ( /\ removeWorkExperience(0)
                    /\ Len(resumeData'.workExperience)
                         = Len(resumeData.workExperience) - 1 )
  /\ Len(resumeData.education) > 0
       => ENABLED ( /\ removeEducation(0)
                    /\ Len(resumeData'.education) = Len(resumeData.education) - 1 )
  /\ Len(resumeData.workExperience) = 0
       => ENABLED ( /\ addWorkExperience
                    /\ Len(resumeData'.workExperience) = 1 )
  /\ Len(resumeData.education) = 0
       => ENABLED ( /\ addEducation
                    /\ Len(resumeData'.education) = 1 )

C13_BlankStartNoMinimum == CreatedBlank /\ []NoMinimumLength

\* both lists have been emptied
C13_Witness == resumeData.workExperience = <<>> /\ resumeData.education = <<>>

\* C15: removing at a rendered index i deletes exactly the i-th entry: the
\* entries before and after it keep their contents and order, the length
\* drops by one and the rest of the record is unchanged.
WithoutPosition(arr, i) == SubSeq(arr, 1, i) \o SubSeq(arr, i + 2, Len(arr))

C16_AbsentIndexIsNoOp ==
  /\ \A index \in AbsentIndices(resumeData.workExperience) :
       WithRemovedWorkExperience(resumeData, index) = resumeData
  /\ \A index \in AbsentIndices(resumeData.education) :
       WithRemovedEducation(resumeData, index) = resumeData

\* removals at -1 and at the length are applied to a list with content and to
\* an empty list
C16_Witness ==
  /\ resumeData.workExperience = <<>>
  /\ Len(resumeData.education) = 2
  /\ resumeData.education[2].degree = "x"
  /\ ENABLED (removeEducation(0 - 1) /\ resumeData' = resumeData)
  /\ ENABLED (removeEducation(2) /\ resumeData' = resumeData)
  /\ ENABLED (removeWorkExperience(0) /\ resumeData' = resumeData)

\* C17: an update of one field of the entry at a rendered index changes that
\* field of that entry only; an update of one personal-info field or of the
\* skills string changes that field of the record only.
SameEntriesExcept(new, old, i, f, value) ==
  /\ Len(new) = Len(old)
  /\ \A j \in 1..Len(old) : \A g \in DOMAIN old[j] :
       new[j][g] = IF j = i + 1 /\ g = f THEN value ELSE old[j][g]
  /\ \A j \in 1..Len(old) : DOMAIN new[j] = DOMAIN old[j]

C17_UpdateChangesOneField ==
  [][ /\ resumeData'.workExperience # resumeData.workExperience
           => \A i \in RenderedIndices(resumeData.workExperience) :
              \A f \in WorkFieldNames : \A value \in EntryValues :
                handleWorkExperienceChange(i, f, value)
                  => /\ SameEntriesExcept(resumeData'.workExperience,
                                          resumeData.workExperience, i, f, value)
                     /\ resumeData'.education = resumeData.education
                     /\ resumeData'.personalInfo = resumeData.personalInfo
                     /\ resumeData'.profilePicture = resumeData.profilePicture
                     /\ resumeData'.skills = resumeData.skills
      /\ resumeData'.education # resumeData.education
           => \A i \in RenderedIndices(resumeData.education) :
              \A f \in EducationFieldNames : \A value \in EntryValues :
                handleEducationChange(i, f, value)
                  => /\ SameEntriesExcept(resumeData'.education,
                                          resumeData.education, i, f, value)
                     /\ resumeData'.workExperience = resumeData.workExperience
                     /\ resumeData'.personalInfo = resumeData.personalInfo
                     /\ resumeData'.profilePicture = resumeData.profilePicture
                     /\ resumeData'.skills = resumeData.skills
      /\ resumeData'.personalInfo # resumeData.personalInfo
           => \A f \in PersonalInfoFields : \A value \in PersonalInfoValues(f) :
                handlePersonalInfoChange(f, value)
                  => /\ \A g \in PersonalInfoFields :
                          resumeData'.personalInfo[g]
                            = IF g = f THEN value ELSE resumeData.personalInfo[g]
                     /\ resumeData'.workExperience = resumeData.workExperience
                     /\ resumeData'.education = resumeData.education
                     /\ resumeData'.profilePicture = resumeData.profilePicture
                     /\ resumeData'.skills = resumeData.skills
      /\ resumeData'.skills # resumeData.skills
           => \A value \in SkillsValues :
                handleSkillsChange(value)
                  => /\ resumeData'.skills = value
                     /\ resumeData'.personalInfo = resumeData.personalInfo
                     /\ resumeData'.workExperience = resumeData.workExperience
                     /\ resumeData'.education = resumeData.education
                     /\ resumeData'.profilePicture = resumeData.profilePicture ]_vars

\* single fields of different entries have been typed into, next to fields
\* that already held text
C17_Witness ==
  /\ Len(resumeData.workExperience) = 2
  /\ resumeData.workExperience[1] =
       [company |-> "x", position |-> "x", duration |-> "", description |-> ""]
  /\ resumeData.workExperience[2] =
       [company |-> "", position |-> "x", duration |-> "", description |-> ""]
  /\ Len(resumeData.education) = 1
  /\ resumeData.education[1] = [institution |-> "x", degree |-> "x", year |-> ""]
  /\ resumeData.personalInfo =
       [name |-> "Jane Doe", email |-> "", phone |-> "", address |-> ""]
  /\ resumeData.skills = "TLA+, TypeScript"

\* C14: a started export settles (given that the toPdf promise settles), a
\* settling of either kind leaves the in-progress flag false and the submit
\* control enabled, and the in-progress flag goes from true to false in no
\* step other than a settling of the export call.
C14_ExportSettlesAndReenables ==
  /\ (toPdfCalls # <<>>) ~> (toPdfCalls = <<>> /\ ~isGenerating /\ ~submitDisabled)
  /\ [][ /\ toPdfSettles => (~isGenerating' /\ ~submitDisabled')
         /\ (isGenerating /\ ~isGenerating') => toPdfSettles
         /\ (toPdfCalls # <<>>) => isGenerating ]_vars

\* a failed export has settled and the form can be submitted again
C14_Witness ==
  /\ Truthy(generationError)
  /\ toPdfCalls = <<>>
  /\ ~isGenerating
  /\ ENABLED handleSubmit

\* C18: while an export is in progress the export error flag is null; a
\* submission of a valid record clears the flag as it starts the export, and
\* a set flag is cleared by no step other than such a submission.
C18_ResubmitClearsExportError ==
  /\ []((isGenerating \/ toPdfCalls # <<>>) => generationError = JsNull)
  /\ [][ /\ (handleSubmit /\ AllRequiredPresent(resumeData))
              => (generationError' = JsNull /\ isGenerating' /\ toPdfCalls' # <<>>)
         /\ (Truthy(generationError) /\ generationError' # generationError)
              => (handleSubmit /\ AllRequiredPresent(resumeData)) ]_vars

\* the message of a failed export is shown, and resubmitting the valid record
\* starts a new export with the flag cleared
C18_Witness ==
  /\ Truthy(generationError)
  /\ AllRequiredPresent(resumeData)
  /\ ENABLED (handleSubmit /\ isGenerating' /\ generationError' = JsNull)

\* C19: a non-empty validation message is held only for name, email or phone,
\* and only while that field of the current record is empty.
C19_ErrorOnlyOnEmptyRequiredField ==
  \A f \in DOMAIN errors :
    errors[f] # "" => (f \in RequiredFields /\ resumeData.personalInfo[f] = "")

====
